---- MODULE Spec2Model ----
(***************************************************************************)
(* Model of word-gen.py (Wordlist Generator v1.1).                         *)
(*                                                                         *)
(* A Python str is a sequence of characters; a character is a one-letter   *)
(* TLA+ string.  A generator is its resumable position: stepping it is     *)
(* one next() call, and a position with st = "stop" is StopIteration.      *)
(***************************************************************************)
EXTENDS Integers, Sequences, FiniteSets, TLC

VARIABLES
  pc,           \* control point of the run
  text,         \* main's local `text`: a str, or None
  args,         \* the argparse namespace (all but args.text)
  env,          \* what the environment will do to this run (I/O faults)
  total,        \* main's local `total`
  gen,          \* the generator being driven
  variant,      \* the loop variable: the item yielded last
  emitted,      \* main's local `emitted`
  last_update,  \* main's local `last_update`
  out_fh,       \* the destination file handle
  sink,         \* what was written to the data sink
  stdout,       \* what print() put on sys.stdout besides the data
  stderr,       \* what went to sys.stderr after the banner
  result,       \* how main ended: return code or exception
  hist,         \* enumerator harness: items yielded in the current pass
  first         \* enumerator harness: items yielded in the previous pass

vars == <<pc, text, args, env, total, gen, variant, emitted, last_update,
          out_fh, sink, stdout, stderr, result, hist, first>>

None == "None"

\* `text` when no base string was given: no str has a four-letter element.
NoText == <<None>>

-----------------------------------------------------------------------------
(* Characters: str.isalpha, str.lower, str.upper on the characters used.   *)

LOWER == <<"a","b","c","d","e","f","g","h","i","j","k","l","m",
           "n","o","p","q","r","s","t","u","v","w","x","y","z">>
UPPER == <<"A","B","C","D","E","F","G","H","I","J","K","L","M",
           "N","O","P","Q","R","S","T","U","V","W","X","Y","Z">>

Range(s) == {s[i] : i \in 1..Len(s)}

IndexOf(s, c) == CHOOSE i \in 1..Len(s) : s[i] = c

\* Letters outside ASCII: ß is lower case with the two-character upper case
\* "SS"; ª is alphabetic and has no case.
IsAlpha(ch) == ch \in Range(LOWER) \cup Range(UPPER) \cup {"ß", "ª"}

Lower(ch) ==
  IF ch \in Range(UPPER) THEN <<LOWER[IndexOf(UPPER, ch)]>> ELSE <<ch>>

Upper(ch) ==
  IF ch \in Range(LOWER) THEN <<UPPER[IndexOf(LOWER, ch)]>>
  ELSE IF ch = "ß" THEN <<"S", "S">>
  ELSE <<ch>>

-----------------------------------------------------------------------------
(* The substitution table and the option resolver.                         *)

DEFAULT_SUBS ==
  [ a |-> <<"a", "A", "@", "4">>,
    b |-> <<"b", "B", "8">>,
    c |-> <<"c", "C", "(">>,
    e |-> <<"e", "E", "3">>,
    g |-> <<"g", "G", "9", "6">>,
    i |-> <<"i", "I", "1", "!">>,
    l |-> <<"l", "L", "1", "|">>,
    o |-> <<"o", "O", "0">>,
    s |-> <<"s", "S", "$", "5">>,
    t |-> <<"t", "T", "7", "+">>,
    z |-> <<"z", "Z", "2">> ]

\* `key in subs` and `subs[key]`: the table's keys are one-character strs.
InSubs(key, subs) == Len(key) = 1 /\ key[1] \in DOMAIN subs

SubsAt(key, subs) == [i \in 1..Len(subs[key[1]]) |-> <<subs[key[1]][i]>>]

\* Lines 66-73: deduplicate while preserving order.
RECURSIVE DedupFrom(_, _, _)
DedupFrom(opts, i, out) ==
  IF i > Len(opts) THEN out
  ELSE DedupFrom(opts, i + 1,
                 IF opts[i] \in Range(out) THEN out ELSE Append(out, opts[i]))

\* A resolver that returns its candidates as found, repeats included.
DedupKeepsAll(opts) == opts

Dedup(opts) == DedupFrom(opts, 1, <<>>)

options_for_char(ch, subs) ==
  LET key  == Lower(ch)
      opts == IF IsAlpha(ch)
              THEN IF InSubs(key, subs) THEN SubsAt(key, subs)
                   ELSE <<Lower(ch), Upper(ch)>>
              ELSE << <<ch>> >>
  IN Dedup(opts)

per_char(s, subs) == [i \in 1..Len(s) |-> options_for_char(s[i], subs)]

-----------------------------------------------------------------------------
(* itertools.product as an iterator: an index per pool, the last pool's    *)
(* index moving fastest.                                                   *)

ProductFresh == [st |-> "fresh", idx |-> <<>>]
ProductStop  == [st |-> "stop", idx |-> <<>>]

\* The positions whose index can still advance.
Movable(pools, idx) == {i \in 1..Len(pools) : idx[i] < Len(pools[i])}

Max(S) == CHOOSE x \in S : \A y \in S : y <= x
Min(S) == CHOOSE x \in S : \A y \in S : x <= y

\* A product whose first pool moves fastest.
ProductStepFirstFastest(pools, p) ==
  IF p.st = "fresh"
  THEN IF \E i \in 1..Len(pools) : Len(pools[i]) = 0 THEN ProductStop
       ELSE [st |-> "live", idx |-> [i \in 1..Len(pools) |-> 1]]
  ELSE IF p.st = "stop" \/ Movable(pools, p.idx) = {} THEN ProductStop
  ELSE LET k == Min(Movable(pools, p.idx))
       IN [st |-> "live",
           idx |-> [i \in 1..Len(pools) |->
                      IF i > k THEN p.idx[i]
                      ELSE IF i = k THEN p.idx[i] + 1 ELSE 1]]

\* One next() on the product: the rightmost index that can advance does,
\* and those to its right start over.
ProductStep(pools, p) ==
  IF p.st = "fresh"
  THEN IF \E i \in 1..Len(pools) : Len(pools[i]) = 0 THEN ProductStop
       ELSE [st |-> "live", idx |-> [i \in 1..Len(pools) |-> 1]]
  ELSE IF p.st = "stop" \/ Movable(pools, p.idx) = {} THEN ProductStop
  ELSE LET k == Max(Movable(pools, p.idx))
       IN [st |-> "live",
           idx |-> [i \in 1..Len(pools) |->
                      IF i < k THEN p.idx[i]
                      ELSE IF i = k THEN p.idx[i] + 1 ELSE 1]]

\* The tuple product yields at a live position.
ProductValue(pools, p) == [i \in 1..Len(pools) |-> pools[i][p.idx[i]]]

\* "".join(combo)
RECURSIVE JoinFrom(_, _)
JoinFrom(combo, i) ==
  IF i > Len(combo) THEN <<>> ELSE combo[i] \o JoinFrom(combo, i + 1)

Join(combo) == JoinFrom(combo, 1)

-----------------------------------------------------------------------------
(* iter_base_variants: the generator's position is the product's.          *)

BaseStep(s, subs, p) == ProductStep(per_char(s, subs), p)

BaseValue(s, subs, p) == Join(ProductValue(per_char(s, subs), p))

-----------------------------------------------------------------------------
(* iter_digit_suffixes: for length in range(1, 5), the product of          *)
(* "0123456789" with itself `length` times.                                *)

DIGITS == <<"0", "1", "2", "3", "4", "5", "6", "7", "8", "9">>

DigitLenFirst == 1
DigitLenStop  == 5

\* "0123456789" as product sees it: one str per character
DigitPool == << <<"0">>, <<"1">>, <<"2">>, <<"3">>, <<"4">>,
               <<"5">>, <<"6">>, <<"7">>, <<"8">>, <<"9">> >>

DigitPools(length) == [i \in 1..length |-> DigitPool]

DigitFresh == [st |-> "fresh", length |-> 0, p |-> ProductFresh]
DigitStop  == [st |-> "stop", length |-> 0, p |-> ProductStop]

\* Entering the loop body for `length`: a new product, stepped once.
DigitEnter(length) ==
  IF length >= DigitLenStop THEN DigitStop
  ELSE [st |-> "live", length |-> length,
        p |-> ProductStep(DigitPools(length), ProductFresh)]

DigitStep(g) ==
  IF g.st = "fresh" THEN DigitEnter(DigitLenFirst)
  ELSE IF g.st = "stop" THEN DigitStop
  ELSE LET q == ProductStep(DigitPools(g.length), g.p)
       IN IF q.st = "live" THEN [g EXCEPT !.p = q]
          ELSE DigitEnter(g.length + 1)

DigitValue(g) == Join(ProductValue(DigitPools(g.length), g.p))

-----------------------------------------------------------------------------
(* parse_year_range: str.split("-", 1), str.strip, int.                    *)

DigitVal(c) == IndexOf(DIGITS, c) - 1

IsDigit(c) == c \in Range(DIGITS)

\* s.split("-", 1): the parts around the first "-", or s alone.
Split1(s) ==
  IF \E i \in 1..Len(s) : s[i] = "-"
  THEN LET k == Min({i \in 1..Len(s) : s[i] = "-"})
       IN <<SubSeq(s, 1, k - 1), SubSeq(s, k + 1, Len(s))>>
  ELSE <<s>>

\* s.strip(): blanks off both ends.
Strip(s) ==
  LET keep == {i \in 1..Len(s) : s[i] # " "}
  IN IF keep = {} THEN <<>> ELSE SubSeq(s, Min(keep), Max(keep))

\* What int() accepts of the characters used here: an optional sign and
\* then decimal digits.
Unsigned(s) == IF s # <<>> /\ s[1] \in {"+", "-"} THEN Tail(s) ELSE s

IntOK(s) == Unsigned(s) # <<>> /\ \A i \in 1..Len(Unsigned(s)) : IsDigit(Unsigned(s)[i])

RECURSIVE NatVal(_)
NatVal(s) == IF s = <<>> THEN 0
             ELSE 10 * NatVal(SubSeq(s, 1, Len(s) - 1)) + DigitVal(s[Len(s)])

IntVal(s) == IF s[1] = "-" THEN 0 - NatVal(Unsigned(s)) ELSE NatVal(Unsigned(s))

ValueError == [ok |-> FALSE, start |-> 0, end |-> 0]

\* A parser that keeps the order as typed.
parse_year_range_no_swap(spec) ==
  LET parts == Split1(spec)
  IN IF Len(parts) # 2 THEN ValueError
     ELSE LET a == Strip(parts[1])
              b == Strip(parts[2])
          IN IF ~IntOK(a) \/ ~IntOK(b) THEN ValueError
             ELSE [ok |-> TRUE, start |-> IntVal(a), end |-> IntVal(b)]

parse_year_range(spec) ==
  LET parts == Split1(spec)
  IN IF Len(parts) # 2 THEN ValueError
     ELSE LET a == Strip(parts[1])
              b == Strip(parts[2])
          IN IF ~IntOK(a) \/ ~IntOK(b) THEN ValueError
             ELSE IF IntVal(a) > IntVal(b)
                  THEN [ok |-> TRUE, start |-> IntVal(b), end |-> IntVal(a)]
                  ELSE [ok |-> TRUE, start |-> IntVal(a), end |-> IntVal(b)]

-----------------------------------------------------------------------------
(* iter_year_suffixes: str(y), then f"{y % 100:02d}" when year2.           *)

\* str(n) of an int
RECURSIVE StrNat(_)
StrNat(n) == IF n < 10 THEN <<DIGITS[n + 1]>>
             ELSE StrNat(n \div 10) \o <<DIGITS[(n % 10) + 1]>>

Str(n) == IF n < 0 THEN <<"-">> \o StrNat(0 - n) ELSE StrNat(n)

Century == 100

\* f"{v:02d}" of a v >= 0: zero-padded to width 2
Pad2(v) == IF Len(StrNat(v)) < 2 THEN <<"0">> \o StrNat(v) ELSE StrNat(v)

YearFresh == [st |-> "fresh", y |-> 0, short |-> FALSE]
YearStopped == [st |-> "stop", y |-> 0, short |-> FALSE]
YearRaised == [st |-> "raise", y |-> 0, short |-> FALSE]

YearStep(years_spec, year2, g) ==
  IF g.st = "fresh"
  THEN IF years_spec = <<>> THEN YearStopped
       ELSE LET r == parse_year_range(years_spec)
            IN IF ~r.ok THEN YearRaised
               ELSE IF r.start < r.end + 1
                    THEN [st |-> "live", y |-> r.start, short |-> FALSE]
                    ELSE YearStopped
  ELSE IF g.st # "live" THEN g
  ELSE IF year2 /\ ~g.short THEN [g EXCEPT !.short = TRUE]
  ELSE IF g.y + 1 < parse_year_range(years_spec).end + 1
       THEN [st |-> "live", y |-> g.y + 1, short |-> FALSE]
       ELSE YearStopped

YearValue(g) == IF g.short THEN Pad2(g.y % Century) ELSE Str(g.y)

-----------------------------------------------------------------------------
(* iter_variants: per base variant, the base alone, or its year-suffixed   *)
(* items followed by its digit-suffixed items.                             *)

VariantsFresh ==
  [st |-> "fresh", b |-> ProductFresh, stage |-> "none",
   ys |-> YearFresh, ds |-> DigitFresh]

VariantsEnd(st) ==
  [st |-> st, b |-> ProductStop, stage |-> "none",
   ys |-> YearFresh, ds |-> DigitFresh]

\* The generator's position at its next yield, once the enclosing for loop
\* has drawn `b` from iter_base_variants.
RECURSIVE EnterBase(_, _, _, _, _, _)
AfterYears(s, subs, append_digits, years_spec, year2, b) ==
  IF append_digits /\ DigitStep(DigitFresh).st = "live"
  THEN [st |-> "live", b |-> b, stage |-> "digits",
        ys |-> YearFresh, ds |-> DigitStep(DigitFresh)]
  ELSE EnterBase(s, subs, append_digits, years_spec, year2, BaseStep(s, subs, b))

\* A composition that turns to the digit run first.
EnterBaseDigitsFirst(s, subs, append_digits, years_spec, year2, b) ==
  IF b.st # "live" THEN VariantsEnd("stop")
  ELSE IF (~append_digits) /\ years_spec = <<>>
  THEN [st |-> "live", b |-> b, stage |-> "plain",
        ys |-> YearFresh, ds |-> DigitFresh]
  ELSE IF append_digits
  THEN [st |-> "live", b |-> b, stage |-> "digits",
        ys |-> YearFresh, ds |-> DigitStep(DigitFresh)]
  ELSE [st |-> "live", b |-> b, stage |-> "years",
        ys |-> YearStep(years_spec, year2, YearFresh), ds |-> DigitFresh]

EnterBase(s, subs, append_digits, years_spec, year2, b) ==
  IF b.st # "live" THEN VariantsEnd("stop")
  ELSE IF (~append_digits) /\ years_spec = <<>>
  THEN [st |-> "live", b |-> b, stage |-> "plain",
        ys |-> YearFresh, ds |-> DigitFresh]
  ELSE IF years_spec # <<>>
  THEN LET y == YearStep(years_spec, year2, YearFresh)
       IN IF y.st = "raise" THEN VariantsEnd("raise")
          ELSE IF y.st = "live"
          THEN [st |-> "live", b |-> b, stage |-> "years",
                ys |-> y, ds |-> DigitFresh]
          ELSE AfterYears(s, subs, append_digits, years_spec, year2, b)
  ELSE AfterYears(s, subs, append_digits, years_spec, year2, b)

\* One next() on the generator.
VariantsStep(s, subs, append_digits, years_spec, year2, g) ==
  IF g.st = "fresh"
  THEN EnterBase(s, subs, append_digits, years_spec, year2,
                 BaseStep(s, subs, ProductFresh))
  ELSE IF g.st # "live" THEN g
  ELSE IF g.stage = "plain"
  THEN EnterBase(s, subs, append_digits, years_spec, year2,
                 BaseStep(s, subs, g.b))
  ELSE IF g.stage = "years"
  THEN LET y == YearStep(years_spec, year2, g.ys)
       IN IF y.st = "live" THEN [g EXCEPT !.ys = y]
          ELSE AfterYears(s, subs, append_digits, years_spec, year2, g.b)
  ELSE LET d == DigitStep(g.ds)
       IN IF d.st = "live" THEN [g EXCEPT !.ds = d]
          ELSE EnterBase(s, subs, append_digits, years_spec, year2,
                         BaseStep(s, subs, g.b))

\* The item yielded at a live position.
VariantsValue(s, subs, g) ==
  BaseValue(s, subs, g.b) \o
    (IF g.stage = "years" THEN YearValue(g.ys)
     ELSE IF g.stage = "digits" THEN DigitValue(g.ds)
     ELSE <<>>)

-----------------------------------------------------------------------------
(* render_progress                                                         *)

BarWidth == 30

\* int(width * (done / total)), taken as the exact quotient rounded down
Filled(done, tot) == (BarWidth * done) \div tot

NoProgress == [calls |-> 0, in_loop |-> 0, done |-> 0, total |-> 0,
               filled |-> 0, newlines |-> 0]

\* sys.stderr after render_progress(done, tot, start); `looping` tells the
\* call at line 258 from the one at line 264.
render_progress(err, done, tot, looping) ==
  IF tot <= 0 THEN err
  ELSE [err EXCEPT !.calls = @ + 1,
                   !.in_loop = IF looping THEN @ + 1 ELSE @,
                   !.done = done, !.total = tot,
                   !.filled = Filled(done, tot)]

-----------------------------------------------------------------------------
(* main: the total estimate (lines 219-236)                                *)

DigitTotal == 11110

RECURSIVE BaseTotalFrom(_, _)
BaseTotalFrom(pools, i) ==
  IF i > Len(pools) THEN 1 ELSE Len(pools[i]) * BaseTotalFrom(pools, i + 1)

base_total(s) == BaseTotalFrom(per_char(s, DEFAULT_SUBS), 1)

year_total(a) ==
  IF a.years # <<>>
  THEN LET r == parse_year_range(a.years)
       IN (r.end - r.start + 1) * (IF a.year2 THEN 2 ELSE 1)
  ELSE 1

digit_total(a) == IF a.append_digits THEN DigitTotal ELSE 1

EstimatedTotal(s, a) ==
  LET t == base_total(s) * year_total(a) * digit_total(a)
  IN IF a.limit # 0 /\ a.limit < t THEN a.limit ELSE t

-----------------------------------------------------------------------------
(* The runs explored: the command lines and the environment's faults.      *)

MaxFailAt == 2

Texts == {<<>>, <<"7">>, <<"d">>}

YearSpecs ==
  { <<>>,
    <<"2", "0", "2", "0", "-", "2", "0", "2", "0">>,
    <<"2", "0", "2", "0", " ", "-", " ", "2", "0", "1", "9">>,
    <<"2", "0", "2", "0">>,
    <<"1", "9", "x", "-", "2", "0">> }

Limits == {0, 3, 1000}

Outs == {"", "out.txt"}

ArgSpace ==
  [append_digits : BOOLEAN, years : YearSpecs, year2 : BOOLEAN,
   limit : Limits, out : Outs, count_only : BOOLEAN]

\* fail_at = n: the n-th write to the sink raises (0: none does).
EnvSpace == [open_fails : BOOLEAN, fail_at : 0..MaxFailAt]

-----------------------------------------------------------------------------
(* main as a state machine.                                                *)

ProgressEvery == 1000

Running == [kind |-> "none", value |-> 0]

NoFile == [state |-> None, opens |-> 0]

NoSink == [dest |-> None, lines |-> 0, last |-> <<>>]

\* Lines 212-217: the base string is args.text, or read from the prompt,
\* where end of input ends the run with 1.
ResolveText ==
  /\ pc = "start"
  /\ IF text # NoText
     THEN /\ pc' = "estimate"
          /\ UNCHANGED <<text, result>>
     ELSE \/ /\ pc' = "exit"
             /\ result' = [kind |-> "return", value |-> 1]
             /\ UNCHANGED text
          \/ /\ text' \in Texts
             /\ pc' = "estimate"
             /\ UNCHANGED result
  /\ UNCHANGED <<args, env, total, gen, variant, emitted, last_update,
                 out_fh, sink, stdout, stderr, hist, first>>

\* Lines 219-240: the estimate; parse_year_range's ValueError leaves main
\* here; count-only prints the total and returns 0.
Estimate ==
  /\ pc = "estimate"
  /\ IF args.years # <<>> /\ ~parse_year_range(args.years).ok
     THEN /\ pc' = "exit"
          /\ result' = [kind |-> "raise", value |-> "ValueError"]
          /\ UNCHANGED <<total, stdout>>
     ELSE /\ total' = EstimatedTotal(text, args)
          /\ IF args.count_only
             THEN /\ stdout' = Append(stdout, [kind |-> "int", n |-> total'])
                  /\ result' = [kind |-> "return", value |-> 0]
                  /\ pc' = "exit"
             ELSE /\ pc' = "open"
                  /\ UNCHANGED <<stdout, result>>
  /\ UNCHANGED <<text, args, env, gen, variant, emitted, last_update,
                 out_fh, sink, stderr, hist, first>>

\* Lines 242-253: the sink is sys.stdout or the file opened here; open()
\* may raise, with out_fh still None.
OpenSink ==
  /\ pc = "open"
  /\ IF args.out # "" /\ env.open_fails
     THEN /\ pc' = "finally"
          /\ result' = [kind |-> "raise", value |-> "OSError"]
          /\ UNCHANGED <<out_fh, sink, emitted, last_update, gen>>
     ELSE /\ out_fh' = IF args.out # ""
                       THEN [state |-> "open", opens |-> out_fh.opens + 1]
                       ELSE out_fh
          /\ sink' = [NoSink EXCEPT !.dest = IF args.out # "" THEN args.out
                                             ELSE "stdout"]
          /\ emitted' = 0
          /\ last_update' = 0
          /\ gen' = VariantsFresh
          /\ pc' = "loop"
          /\ UNCHANGED result
  /\ UNCHANGED <<text, args, env, total, variant, stdout, stderr, hist, first>>

\* Line 261: `if args.limit and emitted >= args.limit: break`
\* A limit check that lets one more item through.
LimitReachedOnePast(n) == args.limit # 0 /\ n > args.limit

LimitReached(n) == args.limit # 0 /\ n >= args.limit

\* Lines 253-262: one turn of the for loop: next() on the generator, and for
\* an item the write, the count, the progress render and the limit check.
LoopTurn ==
  /\ pc = "loop"
  /\ LET g == VariantsStep(text, DEFAULT_SUBS, args.append_digits,
                           args.years, args.year2, gen)
     IN /\ gen' = g
        /\ IF g.st = "stop"
           THEN /\ pc' = "after"
                /\ UNCHANGED <<variant, sink, emitted, last_update, stderr, result>>
           ELSE IF g.st = "raise"
           THEN /\ pc' = "finally"
                /\ result' = [kind |-> "raise", value |-> "ValueError"]
                /\ UNCHANGED <<variant, sink, emitted, last_update, stderr>>
           ELSE /\ variant' = VariantsValue(text, DEFAULT_SUBS, g)
                /\ IF env.fail_at = emitted + 1
                   THEN /\ pc' = "finally"
                        /\ result' = [kind |-> "raise", value |-> "OSError"]
                        /\ UNCHANGED <<sink, emitted, last_update, stderr>>
                   ELSE /\ sink' = [sink EXCEPT !.lines = @ + 1, !.last = variant']
                        /\ emitted' = emitted + 1
                        /\ IF emitted' - last_update >= ProgressEvery
                           THEN /\ stderr' = render_progress(stderr, emitted', total, TRUE)
                                /\ last_update' = emitted'
                           ELSE UNCHANGED <<stderr, last_update>>
                        /\ pc' = IF LimitReached(emitted') THEN "after" ELSE "loop"
                        /\ UNCHANGED result
  /\ UNCHANGED <<text, args, env, total, out_fh, stdout, hist, first>>

\* Lines 264-269: the last render, the line break, the summary, return 0.
Finish ==
  /\ pc = "after"
  /\ stderr' = [render_progress(stderr, emitted, total, FALSE)
                  EXCEPT !.newlines = @ + 1]
  /\ stdout' = IF out_fh.state # None
               THEN Append(stdout, [kind |-> "wrote", n |-> emitted, to |-> args.out])
               ELSE stdout
  /\ result' = [kind |-> "return", value |-> 0]
  /\ pc' = "finally"
  /\ UNCHANGED <<text, args, env, total, gen, variant, emitted, last_update,
                 out_fh, sink, hist, first>>

\* A clean-up that closes the file only on return.
FinallyLeavesOpen ==
  /\ pc = "finally"
  /\ pc' = "exit"
  /\ out_fh' = IF out_fh.state # None /\ result.kind = "return"
               THEN [out_fh EXCEPT !.state = "closed"] ELSE out_fh
  /\ UNCHANGED <<text, args, env, total, gen, variant, emitted, last_update,
                 sink, stdout, stderr, result, hist, first>>

\* Lines 270-272: `finally: if out_fh: out_fh.close()`, on return and on
\* raise alike.
Finally ==
  /\ pc = "finally"
  /\ pc' = "exit"
  /\ out_fh' = IF out_fh.state # None
               THEN [out_fh EXCEPT !.state = "closed"] ELSE out_fh
  /\ UNCHANGED <<text, args, env, total, gen, variant, emitted, last_update,
                 sink, stdout, stderr, result, hist, first>>

Idle == hist = <<>> /\ first = <<>>

\* After parse_args (line 210), with text = args.text.
Init ==
  /\ pc = "start"
  /\ text \in Texts \cup {NoText}
  /\ args \in ArgSpace
  /\ env \in {e \in EnvSpace : e.open_fails => args.out # ""}
  /\ total = 0
  /\ gen = VariantsFresh
  /\ variant = <<>>
  /\ emitted = 0
  /\ last_update = 0
  /\ out_fh = NoFile
  /\ sink = NoSink
  /\ stdout = <<>>
  /\ stderr = NoProgress
  /\ result = Running
  /\ Idle

Next == ResolveText \/ Estimate \/ OpenSink \/ LoopTurn \/ Finish \/ Finally

Spec == Init /\ [][Next]_vars

-----------------------------------------------------------------------------
(* The enumerators driven on their own: each is stepped to exhaustion,     *)
(* `hist` collecting what it yields, and the restartable ones are then     *)
(* called afresh for a second pass.                                        *)

MaxTextLen == 3
MaxSpan == 3

Alphabet == {"a", "c", "D", "7", "ß", "ª"}

RECURSIVE StrsUpTo(_)
StrsUpTo(n) ==
  IF n = 0 THEN {<<>>}
  ELSE StrsUpTo(n - 1) \cup
       {Append(s, c) : s \in {x \in StrsUpTo(n - 1) : Len(x) = n - 1}, c \in Alphabet}

Anchors == {0, 1, 99, 2019}

NoArgs == [append_digits |-> FALSE, years |-> <<>>, year2 |-> FALSE,
           limit |-> 0, out |-> "", count_only |-> FALSE]

NoEnv == [open_fails |-> FALSE, fail_at |-> 0]

MainIdle ==
  /\ total = 0
  /\ emitted = 0
  /\ last_update = 0
  /\ out_fh = NoFile
  /\ sink = NoSink
  /\ stdout = <<>>
  /\ stderr = NoProgress
  /\ result = Running

mainIdleVars == <<total, last_update, out_fh, sink, stdout, stderr, result>>

\* list(iter_base_variants(text, DEFAULT_SUBS)), twice.
InitBase ==
  /\ pc = "base1"
  /\ text \in StrsUpTo(MaxTextLen)
  /\ args = NoArgs
  /\ env = NoEnv
  /\ gen = ProductFresh
  /\ variant = <<>>
  /\ hist = <<>>
  /\ first = <<>>
  /\ MainIdle

BaseNext ==
  /\ pc \in {"base1", "base2"}
  /\ BaseStep(text, DEFAULT_SUBS, gen).st = "live"
  /\ gen' = BaseStep(text, DEFAULT_SUBS, gen)
  /\ variant' = BaseValue(text, DEFAULT_SUBS, gen')
  /\ hist' = Append(hist, variant')
  /\ emitted' = emitted + 1
  /\ UNCHANGED <<pc, text, args, env, first>>
  /\ UNCHANGED mainIdleVars

BaseAgain ==
  /\ pc = "base1"
  /\ BaseStep(text, DEFAULT_SUBS, gen).st = "stop"
  /\ pc' = "base2"
  /\ first' = hist
  /\ hist' = <<>>
  /\ emitted' = 0
  /\ gen' = ProductFresh
  /\ UNCHANGED <<text, args, env, variant>>
  /\ UNCHANGED mainIdleVars

BaseDone ==
  /\ pc = "base2"
  /\ BaseStep(text, DEFAULT_SUBS, gen).st = "stop"
  /\ pc' = "base_done"
  /\ gen' = BaseStep(text, DEFAULT_SUBS, gen)
  /\ UNCHANGED <<text, args, env, variant, emitted, hist, first>>
  /\ UNCHANGED mainIdleVars

NextBase == BaseNext \/ BaseAgain \/ BaseDone

SpecBase == InitBase /\ [][NextBase]_vars

\* The range specification as typed: 'start-end'.
RangeSpec(a, b) == Str(a) \o <<"-">> \o Str(b)

\* list(iter_year_suffixes('start-end', year2)), then the same of
\* 'end-start'.
InitYears ==
  /\ pc = "years1"
  /\ text = NoText
  /\ \E a \in Anchors :
       \E b \in (a - MaxSpan)..(a + MaxSpan) : env = [start |-> a, end |-> b]
  /\ \E y2 \in BOOLEAN :
       args = [NoArgs EXCEPT !.years = RangeSpec(env.start, env.end), !.year2 = y2]
  /\ gen = YearFresh
  /\ variant = <<>>
  /\ hist = <<>>
  /\ first = <<>>
  /\ MainIdle

YearsNext ==
  /\ pc \in {"years1", "years2"}
  /\ YearStep(args.years, args.year2, gen).st = "live"
  /\ gen' = YearStep(args.years, args.year2, gen)
  /\ variant' = YearValue(gen')
  /\ hist' = Append(hist, variant')
  /\ emitted' = emitted + 1
  /\ UNCHANGED <<pc, text, args, env, first>>
  /\ UNCHANGED mainIdleVars

YearsRaise ==
  /\ pc \in {"years1", "years2"}
  /\ YearStep(args.years, args.year2, gen).st = "raise"
  /\ pc' = "years_raised"
  /\ gen' = YearStep(args.years, args.year2, gen)
  /\ UNCHANGED <<text, args, env, variant, emitted, hist, first>>
  /\ UNCHANGED mainIdleVars

YearsAgain ==
  /\ pc = "years1"
  /\ YearStep(args.years, args.year2, gen).st = "stop"
  /\ pc' = "years2"
  /\ args' = [args EXCEPT !.years = RangeSpec(env.end, env.start)]
  /\ first' = hist
  /\ hist' = <<>>
  /\ emitted' = 0
  /\ gen' = YearFresh
  /\ UNCHANGED <<text, env, variant>>
  /\ UNCHANGED mainIdleVars

YearsDone ==
  /\ pc = "years2"
  /\ YearStep(args.years, args.year2, gen).st = "stop"
  /\ pc' = "years_done"
  /\ gen' = YearStep(args.years, args.year2, gen)
  /\ UNCHANGED <<text, args, env, variant, emitted, hist, first>>
  /\ UNCHANGED mainIdleVars

NextYears == YearsNext \/ YearsRaise \/ YearsAgain \/ YearsDone

SpecYears == InitYears /\ [][NextYears]_vars

\* list(iter_digit_suffixes()): `emitted` counts the items yielded.
InitDigits ==
  /\ pc = "digits"
  /\ text = NoText
  /\ args = NoArgs
  /\ env = NoEnv
  /\ gen = DigitFresh
  /\ variant = <<>>
  /\ hist = <<>>
  /\ first = <<>>
  /\ MainIdle

DigitsNext ==
  /\ pc = "digits"
  /\ DigitStep(gen).st = "live"
  /\ gen' = DigitStep(gen)
  /\ variant' = DigitValue(gen')
  /\ emitted' = emitted + 1
  /\ UNCHANGED <<pc, text, args, env, hist, first>>
  /\ UNCHANGED mainIdleVars

DigitsDone ==
  /\ pc = "digits"
  /\ DigitStep(gen).st = "stop"
  /\ pc' = "digits_done"
  /\ gen' = DigitStep(gen)
  /\ UNCHANGED <<text, args, env, variant, emitted, hist, first>>
  /\ UNCHANGED mainIdleVars

NextDigits == DigitsNext \/ DigitsDone

SpecDigits == InitDigits /\ [][NextDigits]_vars

-----------------------------------------------------------------------------
(* What the enumerators yield, as lists.                                   *)

\* list(iter_base_variants(s, DEFAULT_SUBS)) from position p on
RECURSIVE BaseListFrom(_, _)
BaseListFrom(s, p) ==
  LET q == BaseStep(s, DEFAULT_SUBS, p)
  IN IF q.st = "live"
     THEN <<BaseValue(s, DEFAULT_SUBS, q)>> \o BaseListFrom(s, q)
     ELSE <<>>

BaseList(s) == BaseListFrom(s, ProductFresh)

\* list(iter_year_suffixes(years_spec, year2)) from position g on
RECURSIVE YearListFrom(_, _, _)
YearListFrom(years_spec, year2, g) ==
  LET q == YearStep(years_spec, year2, g)
  IN IF q.st = "live"
     THEN <<YearValue(q)>> \o YearListFrom(years_spec, year2, q)
     ELSE <<>>

YearList(years_spec, year2) == YearListFrom(years_spec, year2, YearFresh)

-----------------------------------------------------------------------------
(* Decimal notation, for stating what a suffix must look like.             *)

RECURSIVE Pow10(_)
Pow10(k) == IF k = 0 THEN 1 ELSE 10 * Pow10(k - 1)

AllDigits(s) == \A i \in 1..Len(s) : IsDigit(s[i])

\* v written with exactly `width` digits, leading zeros kept
ZeroPad(v, width) ==
  [i \in 1..width |-> DIGITS[((v \div Pow10(width - i)) % 10) + 1]]

\* s is the decimal string of y: no sign and no leading zero for y >= 0, a
\* minus sign and the decimal string of -y otherwise
IsDecimalOf(s, y) ==
  IF y >= 0
  THEN s # <<>> /\ AllDigits(s) /\ NatVal(s) = y /\ (Len(s) = 1 \/ s[1] # "0")
  ELSE /\ Len(s) >= 2
       /\ s[1] = "-"
       /\ AllDigits(Tail(s))
       /\ NatVal(Tail(s)) = 0 - y
       /\ Tail(s)[1] # "0"

\* The number of digit strings shorter than `width`
ShorterThan(width) == (Pow10(width) - 10) \div 9

\* The n-th digit suffix in length-ascending, fixed-width counting order
DigitAt(n) ==
  LET width == CHOOSE w \in DigitLenFirst..(DigitLenStop - 1) :
                 ShorterThan(w) < n /\ n <= ShorterThan(w + 1)
  IN ZeroPad(n - ShorterThan(width) - 1, width)

-----------------------------------------------------------------------------
(* C9: iter_digit_suffixes yields exactly 11,110 items with no repeats:    *)
(* the k-th item is the k-th digit string in length-ascending order, each  *)
(* length in fixed-width counting order with leading zeros; the first item *)
(* is "0" and the items of length 2 run "00" through "99" in order.        *)
C9_DigitSuffixOrder ==
  pc \in {"digits", "digits_done"} =>
    /\ emitted <= DigitTotal
    /\ emitted >= 1 => variant = DigitAt(emitted)
    /\ emitted = 1 => variant = <<"0">>
    /\ (emitted > 10 /\ emitted <= 110) =>
         /\ Len(variant) = 2
         /\ AllDigits(variant)
         /\ NatVal(variant) = emitted - 11
    /\ pc = "digits_done" =>
         /\ emitted = DigitTotal
         /\ Cardinality({DigitAt(n) : n \in 1..emitted}) = emitted

C9_Witness ==
  /\ pc = "digits_done"
  /\ emitted = DigitTotal
  /\ variant = <<"9", "9", "9", "9">>

-----------------------------------------------------------------------------
(* C5: iter_base_variants yields as many strings as the product of the     *)
(* per-character option-list lengths, all pairwise distinct, each the      *)
(* concatenation of one candidate per input position, and a second         *)
(* enumeration from scratch yields the same sequence in the same order.    *)

Distinct(seq) == \A i, j \in 1..Len(seq) : i < j => seq[i] # seq[j]

\* The strings made of one candidate per position, from position i on
RECURSIVE OnePerPosition(_, _)
OnePerPosition(pools, i) ==
  IF i > Len(pools) THEN {<<>>}
  ELSE {o \o rest : o \in Range(pools[i]), rest \in OnePerPosition(pools, i + 1)}

SingleCharCandidates(s) ==
  \A i \in 1..Len(s) :
    \A o \in Range(per_char(s, DEFAULT_SUBS)[i]) : Len(o) = 1

\* Both passes are complete at "base_done": `first` holds the first one and
\* `hist` the second.
BaseCountDistinctAndRepeatable ==
  /\ Len(first) = base_total(text)
  /\ Distinct(first)
  /\ hist = first

\* As amended: a variant is as long as the input when every candidate is a
\* single character; a candidate of several characters (the upper case of
\* ß is SS) makes a longer variant.
C5_BaseVariants ==
  pc = "base_done" =>
    /\ BaseCountDistinctAndRepeatable
    /\ \A i \in 1..Len(first) :
         first[i] \in OnePerPosition(per_char(text, DEFAULT_SUBS), 1)
    /\ SingleCharCandidates(text) => \A i \in 1..Len(first) : Len(first[i]) = Len(text)

\* As claimed: every variant is exactly as long as the input string.
C5_AsClaimed ==
  pc = "base_done" =>
    /\ BaseCountDistinctAndRepeatable
    /\ \A i \in 1..Len(first) : Len(first[i]) = Len(text)

C5_Witness ==
  /\ pc = "base_done"
  /\ Len(text) = MaxTextLen
  /\ Len(hist) = 48
  /\ hist = first

-----------------------------------------------------------------------------
(* C6: for non-negative integers start and end, iter_year_suffixes yields  *)
(* the same sequence for 'start-end' and 'end-start': the years from min   *)
(* to max ascending, each as its decimal string, each followed at once by  *)
(* (year mod 100) zero-padded to width 2 when year2 is on;                 *)
(* (max - min + 1) * (2 if year2 else 1) items.                            *)

PerYear(year2) == IF year2 THEN 2 ELSE 1

IsYearSequence(seq, lo, hi, year2) ==
  /\ Len(seq) = (hi - lo + 1) * PerYear(year2)
  /\ \A j \in 0..(hi - lo) :
       /\ IsDecimalOf(seq[PerYear(year2) * j + 1], lo + j)
       /\ year2 => seq[2 * j + 2] = ZeroPad((lo + j) % 100, 2)

BothOrdersYieldTheRange ==
  LET lo == Min({env.start, env.end})
      hi == Max({env.start, env.end})
  IN /\ pc # "years_raised"
     /\ pc \in {"years2", "years_done"} => IsYearSequence(first, lo, hi, args.year2)
     /\ pc = "years_done" => hist = first

C6_YearSuffixes ==
  (pc \in {"years1", "years2", "years_raised", "years_done"}
     /\ env.start >= 0 /\ env.end >= 0)
  => BothOrdersYieldTheRange

\* As claimed: for every pair of integers.
C6_AsClaimed ==
  pc \in {"years1", "years2", "years_raised", "years_done"}
  => BothOrdersYieldTheRange

C6_Witness ==
  /\ pc = "years_done"
  /\ env.start > env.end
  /\ args.year2
  /\ Len(hist) = 2 * (MaxSpan + 1)
  /\ hist = first

-----------------------------------------------------------------------------
(* The composed stream as the composition policy describes it: per base    *)
(* variant in turn, the base alone when no suffixing is asked for, else    *)
(* its year-suffixed run and then its digit-suffixed run.                  *)

YearRun(a) == IF a.years # <<>> THEN Len(YearList(a.years, a.year2)) ELSE 0

DigitRun(a) == IF a.append_digits THEN DigitTotal ELSE 0

PerBase(a) ==
  IF (~a.append_digits) /\ a.years = <<>> THEN 1 ELSE YearRun(a) + DigitRun(a)

StreamLen(s, a) == Len(BaseList(s)) * PerBase(a)

StreamAt(s, a, n) ==
  LET per   == PerBase(a)
      years == IF a.years # <<>> THEN YearList(a.years, a.year2) ELSE <<>>
      base  == BaseList(s)[((n - 1) \div per) + 1]
      r     == ((n - 1) % per) + 1
  IN IF (~a.append_digits) /\ a.years = <<>> THEN base
     ELSE IF r <= Len(years) THEN base \o years[r]
     ELSE base \o DigitAt(r - Len(years))

Return0 == [kind |-> "return", value |-> 0]

Ended == pc \in {"finally", "exit"}

InMain == pc \in {"start", "estimate", "open", "loop", "after", "finally", "exit"}

-----------------------------------------------------------------------------
(* C1: with no emission limit, the total computed by the estimator equals  *)
(* the number of items iter_variants emits, in every configuration.        *)
C1_AsClaimed ==
  (InMain /\ pc = "exit" /\ result = Return0
     /\ ~args.count_only /\ args.limit = 0)
  => total = emitted

-----------------------------------------------------------------------------
(* C2: with digit and year suffixing both on, every base variant in turn   *)
(* gives its year-suffixed items in year-suffix order and then its         *)
(* digit-suffixed items in digit-suffix order: yearTotal + 11110 items per *)
(* base variant, the bare base variant never among them.                   *)
TwoRunsAt(n, bases, years, line) ==
  LET per == Len(years) + DigitTotal
      b   == ((n - 1) \div per) + 1
      r   == ((n - 1) % per) + 1
  IN /\ b <= Len(bases)
     /\ line = bases[b] \o (IF r <= Len(years) THEN years[r]
                             ELSE DigitAt(r - Len(years)))
     /\ line \notin Range(bases)

C2_TwoRunsPerBase ==
  (InMain /\ args.append_digits /\ args.years # <<>> /\ sink.lines >= 1)
  => /\ TwoRunsAt(sink.lines, BaseList(text),
                  YearList(args.years, args.year2), sink.last)
     /\ (pc = "exit" /\ result = Return0 /\ args.limit = 0)
          => sink.lines = Len(BaseList(text))
                            * (Len(YearList(args.years, args.year2)) + DigitTotal)

C2_Witness ==
  /\ InMain /\ pc = "exit" /\ result = Return0
  /\ args.append_digits /\ args.years # <<>> /\ args.year2 /\ args.limit = 0
  /\ Len(BaseList(text)) = 2
  /\ sink.lines = 2 * (2 + DigitTotal)

-----------------------------------------------------------------------------
(* C3: with an emission limit N > 0, a run that is not cut short by an I/O *)
(* fault writes the first min(N, stream length) items of the stream in     *)
(* stream order, and when the stream is longer than N the generator is     *)
(* left at its N-th item: no further item is requested.                    *)
C3_LimitStopsThePull ==
  (InMain /\ args.limit > 0 /\ ~args.count_only
     /\ pc \in {"loop", "after", "finally", "exit"} /\ sink.dest # None)
  => /\ sink.lines <= args.limit
     /\ emitted = sink.lines
     /\ sink.lines >= 1 => sink.last = StreamAt(text, args, sink.lines)
     /\ (Ended /\ result = Return0) =>
          /\ sink.lines = Min({args.limit, StreamLen(text, args)})
          /\ StreamLen(text, args) > args.limit =>
               /\ gen.st = "live"
               /\ VariantsValue(text, DEFAULT_SUBS, gen) = sink.last

C3_Witness ==
  /\ InMain /\ pc = "exit" /\ result = Return0
  /\ args.limit = 3
  /\ StreamLen(text, args) > 3
  /\ sink.lines = 3
  /\ gen.st = "live"

-----------------------------------------------------------------------------
(* C4: a count-only run pulls no item, opens no file even when --out is    *)
(* given, and prints exactly one integer, the number of items the run      *)
(* would emit (capped by the limit when one is set).                       *)
C4_AsClaimed ==
  (InMain /\ args.count_only /\ pc = "exit" /\ result = Return0)
  => /\ gen = VariantsFresh
     /\ out_fh = NoFile
     /\ sink = NoSink
     /\ stdout = << [kind |-> "int",
                     n |-> IF args.limit # 0
                           THEN Min({args.limit, StreamLen(text, args)})
                           ELSE StreamLen(text, args)] >>

-----------------------------------------------------------------------------
(* C7: a malformed year range ends the run with a nonzero return code and  *)
(* a message, never with an exception leaving main, and before any item is *)
(* written or any file opened.                                             *)
MalformedYears ==
  { <<"2", "0", "2", "0">>, <<"1", "9", "x", "-", "2", "0">> }

C7_AsClaimed ==
  (InMain /\ args.years \in MalformedYears /\ pc = "exit")
  => /\ result.kind = "return"
     /\ result.value # 0
     /\ sink.lines = 0
     /\ out_fh.opens = 0

-----------------------------------------------------------------------------
(* C8: the destination file is opened at most once and before the first    *)
(* item is written, and once opened it is closed by the time main returns  *)
(* or raises, whether the stream ran out, the limit was reached or a write *)
(* failed.                                                                 *)
C8_FileAlwaysClosed ==
  InMain =>
    /\ out_fh.opens <= 1
    /\ (args.out # "" /\ sink.lines >= 1) => out_fh.opens = 1
    /\ sink.dest \notin {None, "stdout"} => out_fh.opens = 1
    /\ pc = "exit" => out_fh.state # "open"
    /\ (pc = "exit" /\ out_fh.opens = 1) => out_fh.state = "closed"

C8_Witness ==
  /\ InMain /\ pc = "exit"
  /\ result = [kind |-> "raise", value |-> "OSError"]
  /\ sink.lines = 1
  /\ out_fh = [state |-> "closed", opens |-> 1]

-----------------------------------------------------------------------------
(* C10: at every progress render the emitted count is at most the total    *)
(* (so at most 30 cells are filled); the loop renders exactly at every     *)
(* 1,000th item; after the loop exactly one more render shows emitted      *)
(* equal to the total, followed by one line break.                         *)
C10_AsClaimed ==
  (InMain /\ pc \in {"loop", "after", "finally", "exit"} /\ ~args.count_only
     /\ sink.dest # None)
  => /\ stderr.calls >= 1 =>
          /\ stderr.done <= stderr.total
          /\ stderr.filled <= BarWidth
     /\ stderr.in_loop = emitted \div ProgressEvery
     /\ last_update = ProgressEvery * stderr.in_loop
     /\ pc \in {"loop", "after"} =>
          /\ stderr.calls = stderr.in_loop
          /\ stderr.newlines = 0
     /\ result = Return0 =>
          /\ stderr.calls = stderr.in_loop + 1
          /\ stderr.done = emitted
          /\ emitted = total
          /\ stderr.newlines = 1

====
